---- MODULE Spec2Model ----
(***************************************************************************)
(* async-stack-tracer: a terminal Tetris behind a stealth/panic layer.     *)
(* State machine of src/async_stack_tracer.py: class TetrisGame, class     *)
(* StealthManager and the loop of main().                                  *)
(*                                                                         *)
(* Times are integers in milliseconds (0.4 s = 400, 0.7 s = 700).  The     *)
(* grid is the list of lists of the source: grid[y+1][x+1] is the cell the *)
(* source calls grid[y][x] (TLA+ sequences start at 1).                    *)
(***************************************************************************)
EXTENDS Integers, Sequences, FiniteSets, TLC

\* ---------------------------------------------------------------- constants

\* TetrisGame.WIDTH
WIDTH == 10

\* TetrisGame.HEIGHT
HEIGHT == 20

\* StealthManager.DOUBLE_WINDOW, 0.4 s in milliseconds
DOUBLE_WINDOW == 400

\* ------------------------------------------------------------------- bounds

\* The clock starts here; _last_enter_time starts at 0, long before it.
StartTime == 1000

\* Time is sampled up to StartTime + MaxElapsed.
MaxElapsed == 1400

\* Number of method calls of one behaviour.
MaxOps == 3

\* Number of iterations of the loop of main() in one behaviour.
MaxIters == 2

\* Number of bottom rows that vary in the grids clear_lines is tried on.
ClearRows == 3

\* What a sample of time.time() may add to the previous sample.
TimeSteps == {0, 200, 700}

\* ------------------------------------------------------------ shape catalog

\* TetrisGame.SHAPES: kind -> rotation states -> four (x, y) offsets
SHAPES ==
  [ I |-> << << <<0,1>>, <<1,1>>, <<2,1>>, <<3,1>> >>,
             << <<2,0>>, <<2,1>>, <<2,2>>, <<2,3>> >> >>,
    O |-> << << <<1,0>>, <<2,0>>, <<1,1>>, <<2,1>> >> >>,
    T |-> << << <<1,0>>, <<0,1>>, <<1,1>>, <<2,1>> >>,
             << <<1,0>>, <<1,1>>, <<2,1>>, <<1,2>> >>,
             << <<0,1>>, <<1,1>>, <<2,1>>, <<1,2>> >>,
             << <<1,0>>, <<0,1>>, <<1,1>>, <<1,2>> >> >>,
    L |-> << << <<2,0>>, <<0,1>>, <<1,1>>, <<2,1>> >>,
             << <<1,0>>, <<1,1>>, <<1,2>>, <<2,2>> >>,
             << <<0,1>>, <<1,1>>, <<2,1>>, <<0,2>> >>,
             << <<0,0>>, <<1,0>>, <<1,1>>, <<1,2>> >> >>,
    J |-> << << <<0,0>>, <<0,1>>, <<1,1>>, <<2,1>> >>,
             << <<1,0>>, <<2,0>>, <<1,1>>, <<1,2>> >>,
             << <<0,1>>, <<1,1>>, <<2,1>>, <<2,2>> >>,
             << <<1,0>>, <<1,1>>, <<0,2>>, <<1,2>> >> >>,
    S |-> << << <<1,0>>, <<2,0>>, <<0,1>>, <<1,1>> >>,
             << <<1,0>>, <<1,1>>, <<2,1>>, <<2,2>> >> >>,
    Z |-> << << <<0,0>>, <<1,0>>, <<1,1>>, <<2,1>> >>,
             << <<2,0>>, <<1,1>>, <<2,1>>, <<1,2>> >> >> ]

\* TetrisGame.SHAPE_KEYS
SHAPE_KEYS == {"I", "O", "T", "L", "J", "S", "Z"}

\* len(piece['rotations'])
StateCount(kind) == Len(SHAPES[kind])

\* _random_piece: a piece of kind k at rotation 0
RandomPiece(k) == [kind |-> k, rot |-> 0]

\* ------------------------------------------------------------------- state

VARIABLES
  grid,             \* TetrisGame.grid
  current,          \* TetrisGame.current: [kind, rot]
  next_piece,       \* TetrisGame.next_piece: [kind, rot]
  px, py,           \* anchor of the active piece
  score, lines, level,
  drop_interval,    \* milliseconds
  last_drop,        \* milliseconds
  soft_drop,
  hidden,           \* StealthManager.hidden
  awaiting_double,  \* StealthManager.awaiting_double
  last_enter_time,  \* StealthManager._last_enter_time
  clock,            \* the latest value time.time() returned
  pc,               \* position in main(), "exited" after sys.exit
  key,              \* the key getch() returned in this iteration
  op,               \* the method called last (in main(): the step taken last)
  lk,               \* what the last call did to the piece: locked (at anchor
                    \* row y), cleared, resets
  action,           \* what the last handle_enter returned
  nops              \* calls (in main(): loop iterations) made so far

gameCore == <<grid, current, next_piece, px, py, score, lines, level>>
gameVars == <<grid, current, next_piece, px, py, score, lines, level,
              drop_interval, last_drop, soft_drop>>
stealthVars == <<hidden, awaiting_double, last_enter_time>>
vars == <<grid, current, next_piece, px, py, score, lines, level,
          drop_interval, last_drop, soft_drop, hidden, awaiting_double,
          last_enter_time, clock, pc, key, op, lk, action, nops>>

\* ----------------------------------------------------------------- helpers

EmptyRow == [x \in 1..WIDTH |-> 0]

EmptyGrid == [y \in 1..HEIGHT |-> EmptyRow]

\* _shape_coords: the four absolute cells of piece at rotation rot_idx, anchor (x0, y0)
ShapeCoords(piece, rot_idx, x0, y0) ==
  LET st == SHAPES[piece.kind][(rot_idx % StateCount(piece.kind)) + 1]
  IN  [i \in 1..Len(st) |-> <<st[i][1] + x0, st[i][2] + y0>>]

\* _valid_position against grid g for piece
ValidPosition(g, piece, x0, y0, rot_idx) ==
  LET cs == ShapeCoords(piece, rot_idx, x0, y0)
  IN  \A i \in 1..Len(cs) :
        /\ ~(cs[i][1] < 0 \/ cs[i][1] >= WIDTH \/ cs[i][2] < 0 \/ cs[i][2] >= HEIGHT)
        /\ g[cs[i][2] + 1][cs[i][1] + 1] = 0

\* lock_piece, lines 230-232: the loop marks cells i.. of cs, those in bounds
RECURSIVE MarkCells(_, _, _)
MarkCells(g, cs, i) ==
  IF i > Len(cs) THEN g
  ELSE MarkCells(IF 0 <= cs[i][2] /\ cs[i][2] < HEIGHT /\ 0 <= cs[i][1] /\ cs[i][1] < WIDTH
                 THEN [g EXCEPT ![cs[i][2] + 1][cs[i][1] + 1] = 1]
                 ELSE g,
                 cs, i + 1)

\* lock_piece marking all cells of the piece but the last
MergeThree(g, piece, x0, y0) ==
  MarkCells(g, SubSeq(ShapeCoords(piece, piece.rot, x0, y0), 1, 3), 1)

\* lock_piece, lines 230-232: the grid with the piece's cells marked
Merge(g, piece, x0, y0) == MarkCells(g, ShapeCoords(piece, piece.rot, x0, y0), 1)

\* any(cell == 0 for cell in row)
HasEmptyCell(row) == \E c \in 1..Len(row) : row[c] = 0

\* clear_lines that removes the lowest full row only
ClearLinesLowest(g) ==
  LET full == {y \in 1..HEIGHT : ~HasEmptyCell(g[y])}
      m    == CHOOSE y \in full : \A z \in full : z <= y
  IN  IF full = {} THEN [grid |-> g, cleared |-> 0]
      ELSE [grid |-> <<EmptyRow>> \o SubSeq(g, 1, m - 1) \o SubSeq(g, m + 1, HEIGHT),
            cleared |-> 1]

\* clear_lines with the empty rows appended below the surviving rows
ClearLinesAppend(g) ==
  LET new_grid == SelectSeq(g, HasEmptyCell)
      cleared  == HEIGHT - Len(new_grid)
  IN  [grid |-> new_grid \o [i \in 1..cleared |-> EmptyRow], cleared |-> cleared]

\* clear_lines: the new grid and the returned count
ClearLines(g) ==
  LET new_grid == SelectSeq(g, HasEmptyCell)
      cleared  == HEIGHT - Len(new_grid)
  IN  [grid |-> [i \in 1..cleared |-> EmptyRow] \o new_grid, cleared |-> cleared]

\* a score of 100 a row
ScoreDeltaLinear(cleared) == 100 * cleared

\* lock_piece, line 234: the score table with its default
ScoreDelta(cleared) ==
  CASE cleared = 0 -> 0
    [] cleared = 1 -> 100
    [] cleared = 2 -> 300
    [] cleared = 3 -> 500
    [] cleared = 4 -> 800
    [] OTHER -> 0

\* the level rounded up: one level for every started ten lines
LevelOfCeil(n) == IF n = 0 THEN 1 ELSE (n + 9) \div 10

\* lock_piece, line 236
LevelOf(n) == 1 + (n \div 10)

Max(a, b) == IF a >= b THEN a ELSE b

\* lock_piece, line 237, in milliseconds
DropIntervalOf(lv) == Max(120, 700 - (lv - 1) * 50)

\* step, line 250: drop_interval * (0.2 if soft_drop else 1.0), in milliseconds
EffectiveInterval(di, soft) == IF soft THEN (di * 2) \div 10 ELSE di

\* spawn position, lines 186-187
SpawnX == (WIDTH \div 2) - 2

\* No lock in the last call.
NoLock == [locked |-> FALSE, y |-> -1, cleared |-> 0, resets |-> 0]

\* ------------------------------------------------------------- TetrisGame

\* game_over that clears the grid and leaves score, lines and level
GameOverKeepStats(di, k2, k3) ==
  [grid |-> EmptyGrid, current |-> RandomPiece(k2), next_piece |-> RandomPiece(k3),
   px |-> SpawnX, py |-> 0, score |-> score, lines |-> lines, level |-> level,
   drop_interval |-> di, resets |-> 1]

\* game_over followed by its spawn_piece: the fresh next piece k2 becomes the
\* active piece, k3 the next one.  drop_interval is not assigned.  resets is 1
\* when the spawn on the empty grid is valid, 2 when it recurses again.
GameOver(di, k2, k3) ==
  [grid |-> EmptyGrid, current |-> RandomPiece(k2), next_piece |-> RandomPiece(k3),
   px |-> SpawnX, py |-> 0, score |-> 0, lines |-> 0, level |-> 1,
   drop_interval |-> di,
   resets |-> IF ValidPosition(EmptyGrid, RandomPiece(k2), SpawnX, 0, 0)
              THEN 1 ELSE 2]

\* spawn_piece on grid g with next piece nxt: the states it can end in
SpawnPiece(g, nxt, sc, ln, lv, di) ==
  IF ValidPosition(g, nxt, SpawnX, 0, nxt.rot)
  THEN { [grid |-> g, current |-> nxt, next_piece |-> RandomPiece(k),
          px |-> SpawnX, py |-> 0, score |-> sc, lines |-> ln, level |-> lv,
          drop_interval |-> di, resets |-> 0] : k \in SHAPE_KEYS }
  ELSE { GameOver(di, k2, k3) : k2 \in SHAPE_KEYS, k3 \in SHAPE_KEYS }

\* lock_piece with the active piece at anchor (x0, y0)
LockPiece(x0, y0) ==
  \E c \in {ClearLines(Merge(grid, current, x0, y0))} :
  \E ln2 \in {lines + c.cleared} :
  \E r \in SpawnPiece(c.grid, next_piece, score + ScoreDelta(c.cleared),
                      ln2, LevelOf(ln2), DropIntervalOf(LevelOf(ln2))) :
    /\ grid' = r.grid
    /\ current' = r.current
    /\ next_piece' = r.next_piece
    /\ px' = r.px
    /\ py' = r.py
    /\ score' = r.score
    /\ lines' = r.lines
    /\ level' = r.level
    /\ drop_interval' = r.drop_interval
    /\ lk' = [locked |-> TRUE, y |-> y0, cleared |-> c.cleared, resets |-> r.resets]

\* rotate that tries one column to the left when the rotation does not fit
RotateKick ==
  LET new_rot == (current.rot + 1) % StateCount(current.kind)
      fits(x) == ValidPosition(grid, current, x, py, new_rot)
  IN  /\ current' = IF fits(px) \/ fits(px - 1)
                     THEN [current EXCEPT !.rot = new_rot] ELSE current
      /\ px' = IF ~fits(px) /\ fits(px - 1) THEN px - 1 ELSE px
      /\ lk' = NoLock
      /\ UNCHANGED <<grid, next_piece, py, score, lines, level,
                     drop_interval, last_drop, soft_drop>>

\* rotate without the modulo
RotateNoWrap ==
  LET new_rot == current.rot + 1
  IN  /\ current' = IF ValidPosition(grid, current, px, py, new_rot)
                     THEN [current EXCEPT !.rot = new_rot] ELSE current
      /\ lk' = NoLock
      /\ UNCHANGED <<grid, next_piece, px, py, score, lines, level,
                     drop_interval, last_drop, soft_drop>>

\* rotate
Rotate ==
  LET new_rot == (current.rot + 1) % StateCount(current.kind)
  IN  /\ current' = IF ValidPosition(grid, current, px, py, new_rot)
                     THEN [current EXCEPT !.rot = new_rot] ELSE current
      /\ lk' = NoLock
      /\ UNCHANGED <<grid, next_piece, px, py, score, lines, level,
                     drop_interval, last_drop, soft_drop>>

\* move(dx) without the validity check
MoveUnchecked(dx) ==
  /\ px' = px + dx
  /\ lk' = NoLock
  /\ UNCHANGED <<grid, current, next_piece, py, score, lines, level,
                 drop_interval, last_drop, soft_drop>>

\* move(dx)
Move(dx) ==
  LET nx == px + dx
  IN  /\ px' = IF ValidPosition(grid, current, nx, py, current.rot) THEN nx ELSE px
      /\ lk' = NoLock
      /\ UNCHANGED <<grid, current, next_piece, py, score, lines, level,
                     drop_interval, last_drop, soft_drop>>

\* soft_drop_on
SoftDropOn ==
  /\ soft_drop' = TRUE
  /\ lk' = NoLock
  /\ UNCHANGED <<gameCore, drop_interval, last_drop>>

\* soft_drop_off
SoftDropOff ==
  /\ soft_drop' = FALSE
  /\ lk' = NoLock
  /\ UNCHANGED <<gameCore, drop_interval, last_drop>>

\* the row hard_drop's loop stops at: y0 is raised while the row below is valid
RECURSIVE DropRow(_)
DropRow(y0) ==
  IF ValidPosition(grid, current, px, y0 + 1, current.rot) THEN DropRow(y0 + 1) ELSE y0

\* hard_drop that locks the piece where it is
HardDropInPlace ==
  /\ LockPiece(px, py)
  /\ UNCHANGED <<last_drop, soft_drop>>

\* hard_drop
HardDrop ==
  /\ \E y1 \in {DropRow(py)} : LockPiece(px, y1)
  /\ UNCHANGED <<last_drop, soft_drop>>

\* step that waits until more than the interval has passed
StepStrict(now) ==
  IF now - last_drop > EffectiveInterval(drop_interval, soft_drop)
  THEN /\ IF ValidPosition(grid, current, px, py + 1, current.rot)
          THEN /\ py' = py + 1
               /\ lk' = NoLock
               /\ UNCHANGED <<grid, current, next_piece, px, score, lines,
                              level, drop_interval>>
          ELSE LockPiece(px, py)
       /\ last_drop' = now
       /\ UNCHANGED soft_drop
  ELSE /\ lk' = NoLock
       /\ UNCHANGED gameVars

\* step with last_drop assigned outside the if
StepAlwaysReset(now) ==
  /\ IF now - last_drop >= EffectiveInterval(drop_interval, soft_drop)
     THEN IF ValidPosition(grid, current, px, py + 1, current.rot)
          THEN /\ py' = py + 1
               /\ lk' = NoLock
               /\ UNCHANGED <<grid, current, next_piece, px, score, lines,
                              level, drop_interval>>
          ELSE LockPiece(px, py)
     ELSE /\ lk' = NoLock
          /\ UNCHANGED <<gameCore, drop_interval>>
  /\ last_drop' = now
  /\ UNCHANGED soft_drop

\* step, with now the value its time.time() returned
Step(now) ==
  IF now - last_drop >= EffectiveInterval(drop_interval, soft_drop)
  THEN /\ IF ValidPosition(grid, current, px, py + 1, current.rot)
          THEN /\ py' = py + 1
               /\ lk' = NoLock
               /\ UNCHANGED <<grid, current, next_piece, px, score, lines,
                              level, drop_interval>>
          ELSE LockPiece(px, py)
       /\ last_drop' = now
       /\ UNCHANGED soft_drop
  ELSE /\ lk' = NoLock
       /\ UNCHANGED gameVars

\* ---------------------------------------------------------- StealthManager

\* handle_enter that leaves the window open when it returns 'restore'
HandleEnterRestoreOnly(now) ==
  IF ~hidden
  THEN IF ~awaiting_double
       THEN /\ hidden' = TRUE
            /\ awaiting_double' = TRUE
            /\ last_enter_time' = now
            /\ action' = "hide"
       ELSE /\ awaiting_double' = FALSE
            /\ action' = "panic"
            /\ UNCHANGED <<hidden, last_enter_time>>
  ELSE IF awaiting_double /\ (now - last_enter_time) <= DOUBLE_WINDOW
       THEN /\ awaiting_double' = FALSE
            /\ action' = "panic"
            /\ UNCHANGED <<hidden, last_enter_time>>
       ELSE /\ hidden' = FALSE
            /\ action' = "restore"
            /\ UNCHANGED <<awaiting_double, last_enter_time>>

\* handle_enter that leaves the window open when it returns 'panic'
HandleEnterKeepWindow(now) ==
  IF ~hidden
  THEN /\ hidden' = TRUE
       /\ awaiting_double' = TRUE
       /\ last_enter_time' = now
       /\ action' = "hide"
  ELSE IF awaiting_double /\ (now - last_enter_time) <= DOUBLE_WINDOW
       THEN /\ action' = "panic"
            /\ UNCHANGED <<hidden, awaiting_double, last_enter_time>>
       ELSE /\ hidden' = FALSE
            /\ awaiting_double' = FALSE
            /\ action' = "restore"
            /\ UNCHANGED last_enter_time

\* handle_enter, with now the value its time.time() returned
HandleEnter(now) ==
  IF ~hidden
  THEN IF ~awaiting_double
       THEN /\ hidden' = TRUE
            /\ awaiting_double' = TRUE
            /\ last_enter_time' = now
            /\ action' = "hide"
       ELSE /\ awaiting_double' = FALSE
            /\ action' = "panic"
            /\ UNCHANGED <<hidden, last_enter_time>>
  ELSE IF awaiting_double /\ (now - last_enter_time) <= DOUBLE_WINDOW
       THEN /\ awaiting_double' = FALSE
            /\ action' = "panic"
            /\ UNCHANGED <<hidden, last_enter_time>>
       ELSE /\ hidden' = FALSE
            /\ awaiting_double' = FALSE
            /\ action' = "restore"
            /\ UNCHANGED last_enter_time

\* check_timers that closes the window whatever the time
CheckTimersAlwaysClear(now) ==
  /\ awaiting_double' = FALSE
  /\ UNCHANGED <<hidden, last_enter_time>>

\* check_timers that never closes the window
CheckTimersNever(now) ==
  /\ UNCHANGED <<hidden, awaiting_double, last_enter_time>>

\* check_timers, with now the value its time.time() returned (read only while
\* awaiting_double is set)
CheckTimers(now) ==
  /\ awaiting_double' = IF awaiting_double /\ now - last_enter_time > DOUBLE_WINDOW
                        THEN FALSE ELSE awaiting_double
  /\ UNCHANGED <<hidden, last_enter_time>>

\* The values a time.time() call can return now.
Samples == {now \in {clock + d : d \in TimeSteps} : now <= StartTime + MaxElapsed}

\* ------------------------------------------------------------------- Init

\* StealthManager.__init__
StealthInit ==
  /\ hidden = FALSE
  /\ awaiting_double = FALSE
  /\ last_enter_time = 0

\* TetrisGame.__init__: the first next piece is spawned on the empty grid
GameInit ==
  /\ \E k0 \in SHAPE_KEYS :
       \E r \in SpawnPiece(EmptyGrid, RandomPiece(k0), 0, 0, 1, 700) :
         /\ grid = r.grid
         /\ current = r.current
         /\ next_piece = r.next_piece
         /\ px = r.px
         /\ py = r.py
         /\ score = r.score
         /\ lines = r.lines
         /\ level = r.level
         /\ drop_interval = r.drop_interval
  /\ last_drop = StartTime
  /\ soft_drop = FALSE

\* A row with exactly the columns of S occupied.
RowOf(S) == [x \in 1..WIDTH |-> IF (x - 1) \in S THEN 1 ELSE 0]

\* Mid-game states of TetrisGame.  Each is reached from the constructor by
\* the calls listed with it (p(r, x) stands for: rotate r times, move to
\* anchor x, hard_drop), with random.choice returning the kinds named.
\*
\* TETRIS stands for ten I pieces clearing four rows at once:
\*   4 times [p(0,0) p(0,4)], then p(1,6) p(1,7).

\* TETRIS (4 lines); I p(0,0) p(0,4) p(0,0) p(0,4), O p(0,7) (2 lines);
\* I 4 times [p(0,0) p(0,4)], I p(1,6); then an I rotated once, moved right
\* four times and stepped down 13 rows, with T next: a well at column 9.
WellSnapshot ==
  [grid |-> [y \in 1..HEIGHT |-> IF y - 1 >= 16 THEN RowOf(0..8) ELSE EmptyRow],
   current |-> [kind |-> "I", rot |-> 1], next_piece |-> RandomPiece("T"),
   px |-> 7, py |-> 13, score |-> 1100, lines |-> 6, level |-> 1,
   drop_interval |-> 700]

\* TETRIS, TETRIS (8 lines); I p(0,0) p(0,0), O p(0,3), I p(0,6) (1 line,
\* leaving columns 0..5 of the bottom row); I 4 times p(1,2), I p(0,2); then
\* an I moved right three times and stepped down 17 rows, with O next: a
\* stack under the spawn position and a gap of four in the bottom row.
StackSnapshot ==
  [grid |-> [y \in 1..HEIGHT |->
               IF y - 1 = 19 THEN RowOf(0..5)
               ELSE IF y - 1 = 2 THEN RowOf(2..5)
               ELSE IF y - 1 >= 3 THEN RowOf({4})
               ELSE EmptyRow],
   current |-> [kind |-> "I", rot |-> 0], next_piece |-> RandomPiece("O"),
   px |-> 6, py |-> 17, score |-> 1700, lines |-> 9, level |-> 1,
   drop_interval |-> 700]

\* The first piece, a T, rotated three times, moved left three times and
\* stepped down 5 rows, with S next.
SpinSnapshot ==
  [grid |-> EmptyGrid,
   current |-> [kind |-> "T", rot |-> 3], next_piece |-> RandomPiece("S"),
   px |-> 0, py |-> 5, score |-> 0, lines |-> 0, level |-> 1,
   drop_interval |-> 700]

\* TETRIS, TETRIS (8 lines); I p(0,0) p(0,4) p(0,0) p(0,4), I p(1,6); then an
\* I rotated once, moved right four times and stepped down 12 rows, with T
\* next: two rows short of one cell, column 8 two rows higher.
PairSnapshot ==
  [grid |-> [y \in 1..HEIGHT |->
               IF y - 1 >= 18 THEN RowOf(0..8)
               ELSE IF y - 1 >= 16 THEN RowOf({8})
               ELSE EmptyRow],
   current |-> [kind |-> "I", rot |-> 1], next_piece |-> RandomPiece("T"),
   px |-> 7, py |-> 12, score |-> 1600, lines |-> 8, level |-> 1,
   drop_interval |-> 700]

\* TETRIS six times (24 lines, level 3); I 3 times [p(0,0) p(0,4)], I p(1,6);
\* then an I rotated once, moved right four times and stepped down 12 rows,
\* with J next: three rows short of one cell, column 8 one row higher.
TripleSnapshot ==
  [grid |-> [y \in 1..HEIGHT |->
               IF y - 1 >= 17 THEN RowOf(0..8)
               ELSE IF y - 1 = 16 THEN RowOf({8})
               ELSE EmptyRow],
   current |-> [kind |-> "I", rot |-> 1], next_piece |-> RandomPiece("J"),
   px |-> 7, py |-> 12, score |-> 4800, lines |-> 24, level |-> 3,
   drop_interval |-> 600]

Snapshots == {WellSnapshot, StackSnapshot, SpinSnapshot, PairSnapshot, TripleSnapshot}

\* TetrisGame in one of the mid-game states, the last drop just made
GameMidGame ==
  /\ \E r \in Snapshots :
       /\ grid = r.grid
       /\ current = r.current
       /\ next_piece = r.next_piece
       /\ px = r.px
       /\ py = r.py
       /\ score = r.score
       /\ lines = r.lines
       /\ level = r.level
       /\ drop_interval = r.drop_interval
  /\ last_drop = StartTime
  /\ soft_drop = FALSE

EnvInit(at) ==
  /\ clock = StartTime
  /\ pc = at
  /\ key = "none"
  /\ op = "init"
  /\ lk = NoLock
  /\ action = "none"
  /\ nops = 0

\* ---------------------------------------- TetrisGame's methods, called freely

Called(name) ==
  /\ pc = "api"
  /\ nops < MaxOps
  /\ nops' = nops + 1
  /\ op' = name
  /\ UNCHANGED <<pc, key>>

CallMove ==
  /\ Called("move")
  /\ \E dx \in {-1, 1} : Move(dx)
  /\ UNCHANGED <<stealthVars, clock, action>>

CallRotate ==
  /\ Called("rotate")
  /\ Rotate
  /\ UNCHANGED <<stealthVars, clock, action>>

CallSoftDropOn ==
  /\ Called("soft_drop_on")
  /\ SoftDropOn
  /\ UNCHANGED <<stealthVars, clock, action>>

CallSoftDropOff ==
  /\ Called("soft_drop_off")
  /\ SoftDropOff
  /\ UNCHANGED <<stealthVars, clock, action>>

CallHardDrop ==
  /\ Called("hard_drop")
  /\ HardDrop
  /\ UNCHANGED <<stealthVars, clock, action>>

CallStep ==
  /\ Called("step")
  /\ \E now \in Samples :
       /\ Step(now)
       /\ clock' = now
  /\ UNCHANGED <<stealthVars, action>>

InitGame == (GameInit \/ GameMidGame) /\ StealthInit /\ EnvInit("api")

NextGame ==
  \/ CallMove
  \/ CallRotate
  \/ CallSoftDropOn
  \/ CallSoftDropOff
  \/ CallHardDrop
  \/ CallStep

SpecGame == InitGame /\ [][NextGame]_vars

\* ------------------------------------ StealthManager's methods, called freely
\* by a caller that, like main(), calls panic_exit when handle_enter returns
\* 'panic'.

CallHandleEnter ==
  /\ Called("handle_enter")
  /\ action # "panic"
  /\ \E now \in Samples :
       /\ HandleEnter(now)
       /\ clock' = now
  /\ lk' = NoLock
  /\ UNCHANGED gameVars

CallCheckTimers ==
  /\ Called("check_timers")
  /\ action # "panic"
  /\ IF awaiting_double
     THEN \E now \in Samples :
            /\ CheckTimers(now)
            /\ clock' = now
     ELSE UNCHANGED <<stealthVars, clock>>
  /\ lk' = NoLock
  /\ UNCHANGED <<gameVars, action>>

\* panic_exit: the fake installation, then sys.exit(0)
CallPanicExit ==
  /\ pc = "api"
  /\ action = "panic"
  /\ pc' = "exited"
  /\ op' = "panic_exit"
  /\ lk' = NoLock
  /\ UNCHANGED <<gameVars, stealthVars, clock, key, action, nops>>

InitStealth == GameInit /\ StealthInit /\ EnvInit("api")

NextStealth ==
  \/ CallHandleEnter
  \/ CallCheckTimers
  \/ CallPanicExit

SpecStealth == InitStealth /\ [][NextStealth]_vars

\* ------------------------------------------------------------------ main()

\* what getch() can return, by the branch of main() it selects
Keys == {"none", "left", "right", "up", "down", "enter", "quit", "other"}

\* lines 334-339: the top of the loop samples the time and polls a key
MainPoll ==
  /\ pc = "poll"
  /\ nops < MaxIters
  /\ nops' = nops + 1
  /\ clock' \in Samples
  /\ key' \in Keys
  /\ pc' = "input"
  /\ op' = "poll"
  /\ lk' = NoLock
  /\ UNCHANGED <<gameVars, stealthVars, action>>

\* lines 341-373 with a panic_exit that returns
MainInputNoExit ==
  /\ pc = "input"
  /\ op' = "input"
  /\ UNCHANGED <<key, nops>>
  /\ CASE key = "left" ->
            /\ IF ~hidden THEN Move(-1) ELSE UNCHANGED gameVars /\ lk' = NoLock
            /\ pc' = "timers"
            /\ UNCHANGED <<stealthVars, clock, action>>
       [] key = "right" ->
            /\ IF ~hidden THEN Move(1) ELSE UNCHANGED gameVars /\ lk' = NoLock
            /\ pc' = "timers"
            /\ UNCHANGED <<stealthVars, clock, action>>
       [] key = "up" ->
            /\ IF ~hidden THEN Rotate ELSE UNCHANGED gameVars /\ lk' = NoLock
            /\ pc' = "timers"
            /\ UNCHANGED <<stealthVars, clock, action>>
       [] key = "down" ->
            /\ IF ~hidden THEN SoftDropOn ELSE UNCHANGED gameVars /\ lk' = NoLock
            /\ pc' = "timers"
            /\ UNCHANGED <<stealthVars, clock, action>>
       [] key = "enter" ->
            /\ \E now \in Samples :
                 /\ HandleEnter(now)
                 /\ clock' = now
            /\ pc' = "timers"
            /\ lk' = NoLock
            /\ UNCHANGED gameVars
       [] key = "quit" ->
            /\ pc' = "exited"
            /\ lk' = NoLock
            /\ UNCHANGED <<gameVars, stealthVars, clock, action>>
       [] OTHER ->
            /\ pc' = "timers"
            /\ lk' = NoLock
            /\ UNCHANGED <<gameVars, stealthVars, clock, action>>

\* lines 341-373: the polled key is dispatched
MainInput ==
  /\ pc = "input"
  /\ op' = "input"
  /\ UNCHANGED <<key, nops>>
  /\ CASE key = "left" ->
            /\ IF ~hidden THEN Move(-1) ELSE UNCHANGED gameVars /\ lk' = NoLock
            /\ pc' = "timers"
            /\ UNCHANGED <<stealthVars, clock, action>>
       [] key = "right" ->
            /\ IF ~hidden THEN Move(1) ELSE UNCHANGED gameVars /\ lk' = NoLock
            /\ pc' = "timers"
            /\ UNCHANGED <<stealthVars, clock, action>>
       [] key = "up" ->
            /\ IF ~hidden THEN Rotate ELSE UNCHANGED gameVars /\ lk' = NoLock
            /\ pc' = "timers"
            /\ UNCHANGED <<stealthVars, clock, action>>
       [] key = "down" ->
            /\ IF ~hidden THEN SoftDropOn ELSE UNCHANGED gameVars /\ lk' = NoLock
            /\ pc' = "timers"
            /\ UNCHANGED <<stealthVars, clock, action>>
       [] key = "enter" ->
            /\ \E now \in Samples :
                 /\ HandleEnter(now)
                 /\ clock' = now
            /\ pc' = IF action' = "panic" THEN "exited" ELSE "timers"
            /\ lk' = NoLock
            /\ UNCHANGED gameVars
       [] key = "quit" ->
            /\ pc' = "exited"
            /\ lk' = NoLock
            /\ UNCHANGED <<gameVars, stealthVars, clock, action>>
       [] OTHER ->
            /\ pc' = "timers"
            /\ lk' = NoLock
            /\ UNCHANGED <<gameVars, stealthVars, clock, action>>

\* lines 375-381 without the release of soft drop
MainTimersNoRelease ==
  /\ pc = "timers"
  /\ pc' = "gravity"
  /\ op' = "timers"
  /\ UNCHANGED gameVars
  /\ lk' = NoLock
  /\ IF awaiting_double
     THEN \E now \in Samples :
            /\ CheckTimers(now)
            /\ clock' = now
     ELSE UNCHANGED <<stealthVars, clock>>
  /\ UNCHANGED <<key, action, nops>>

\* lines 375-381: soft drop is released unless the down key was polled, then
\* the stealth timers are checked
MainTimers ==
  /\ pc = "timers"
  /\ pc' = "gravity"
  /\ op' = "timers"
  /\ IF key # "down" THEN SoftDropOff ELSE UNCHANGED gameVars /\ lk' = NoLock
  /\ IF awaiting_double
     THEN \E now \in Samples :
            /\ CheckTimers(now)
            /\ clock' = now
     ELSE UNCHANGED <<stealthVars, clock>>
  /\ UNCHANGED <<key, action, nops>>

\* lines 383-407 without the test of stealth.hidden
MainGravityUngated ==
  /\ pc = "gravity"
  /\ pc' = "poll"
  /\ op' = "gravity"
  /\ \E now \in Samples :
       /\ Step(now)
       /\ clock' = now
  /\ UNCHANGED <<stealthVars, key, action, nops>>

\* lines 383-407: gravity while visible, then the frame is drawn and the loop
\* sleeps up to the frame delay
MainGravity ==
  /\ pc = "gravity"
  /\ pc' = "poll"
  /\ op' = "gravity"
  /\ IF ~hidden
     THEN \E now \in Samples :
            /\ Step(now)
            /\ clock' = now
     ELSE UNCHANGED <<gameVars, clock>> /\ lk' = NoLock
  /\ UNCHANGED <<stealthVars, key, action, nops>>

Init == GameInit /\ StealthInit /\ EnvInit("poll")

Next ==
  \/ MainPoll
  \/ MainInput
  \/ MainTimers
  \/ MainGravity

Spec == Init /\ [][Next]_vars

\* ------------------------------------------------- clear_lines on its own

\* The rows a grid handed to clear_lines is made of here: empty, full, all but
\* the last column, one cell.
RowPatterns == {EmptyRow, RowOf(0..(WIDTH - 1)), RowOf(0..(WIDTH - 2)), RowOf({4})}

\* The rows that vary: the top row and the bottom ClearRows rows.
VariedRows == {1} \cup ((HEIGHT - ClearRows + 1)..HEIGHT)

\* The grids lock_piece may hand to clear_lines after marking a piece.
TestGrids ==
  { [y \in 1..HEIGHT |-> IF y \in VariedRows THEN f[y] ELSE EmptyRow] :
      f \in [VariedRows -> RowPatterns] }

\* clear_lines called on one of these grids
CallClearLines ==
  /\ pc = "clear"
  /\ nops < MaxOps
  /\ nops' = nops + 1
  /\ op' = "clear_lines"
  /\ UNCHANGED <<pc, key>>
  /\ \E c \in {ClearLines(grid)} :
       /\ grid' = c.grid
       /\ lk' = [locked |-> FALSE, y |-> -1, cleared |-> c.cleared, resets |-> 0]
  /\ UNCHANGED <<current, next_piece, px, py, score, lines, level,
                 drop_interval, last_drop, soft_drop, stealthVars, clock, action>>

InitClear ==
  /\ grid \in TestGrids
  /\ current = RandomPiece("O")
  /\ next_piece = RandomPiece("I")
  /\ px = SpawnX
  /\ py = 0
  /\ score = 0
  /\ lines = 0
  /\ level = 1
  /\ drop_interval = 700
  /\ last_drop = StartTime
  /\ soft_drop = FALSE
  /\ StealthInit
  /\ EnvInit("clear")

\* clear_lines on the grids above, and TetrisGame's methods (whose locks call
\* clear_lines) from the constructor and the mid-game states
NextClear ==
  \/ CallClearLines
  \/ NextGame

SpecClear == (InitClear \/ InitGame) /\ [][NextClear]_vars

\* ------------------------------------------------------------------ claims

\* The four cells cs are inside the board and empty in the grid.
CellsFree(cs) ==
  \A i \in 1..4 :
    /\ cs[i][1] \in 0..(WIDTH - 1)
    /\ cs[i][2] \in 0..(HEIGHT - 1)
    /\ grid[cs[i][2] + 1][cs[i][1] + 1] = 0

\* C1: after initialisation and after any sequence of move, rotate, gravity
\* step, hard drop, lock and game-over reset, the four cells of the active
\* piece are inside the board and none of them is occupied.
C1_ActivePieceFree == CellsFree(ShapeCoords(current, current.rot, px, py))

\* A hard drop has locked a piece, the spawn collided and the game was reset.
C1_Witness ==
  /\ op = "hard_drop"
  /\ lk.locked
  /\ lk.resets = 1
  /\ CellsFree(ShapeCoords(current, current.rot, px, py))

\* C2: a confirm trigger received while hidden returns 'panic' exactly when at
\* most DOUBLE_WINDOW has passed since the trigger that hid the game (the
\* window is then still open, whether or not check_timers ran in between), and
\* otherwise returns 'restore', leaving the state visible with the window
\* closed.
C2_PanicIffWithinWindow ==
  [][(hidden /\ op' = "handle_enter") =>
       /\ (action' = "panic") <=> (clock' - last_enter_time <= DOUBLE_WINDOW)
       /\ (action' = "panic") => awaiting_double
       /\ (action' # "panic") =>
            (action' = "restore" /\ ~hidden' /\ ~awaiting_double')]_vars

\* 'panic' returned exactly DOUBLE_WINDOW after the hiding trigger: two later
\* samples of the time, the first one by check_timers.
C2_Witness ==
  /\ op = "handle_enter"
  /\ action = "panic"
  /\ clock - last_enter_time = DOUBLE_WINDOW

\* C3 as stated: every call of step leaves last_drop at the time it sampled.
C3_Original == [][op' = "step" => last_drop' = clock']_vars

\* C3, amended: step sets last_drop to the time it sampled exactly when the
\* elapsed time reached the effective interval (a drop or a lock happened);
\* otherwise it leaves last_drop as it was.
C3_ResetOnlyOnDrop ==
  [][op' = "step" =>
       IF clock' - last_drop >= (IF soft_drop THEN (drop_interval * 2) \div 10
                                              ELSE drop_interval)
       THEN last_drop' = clock'
       ELSE last_drop' = last_drop]_vars

\* A step that came too early: time has passed and last_drop is behind it.
C3_Witness ==
  /\ op = "step"
  /\ last_drop < clock

\* C4 as stated: the drop interval is max(0.12, 0.7 - (level-1)*0.05) for the
\* current level, in milliseconds.
C4_Original ==
  drop_interval = (IF 700 - (level - 1) * 50 > 120 THEN 700 - (level - 1) * 50 ELSE 120)

\* C5 as stated: awaiting_double is set only while at most DOUBLE_WINDOW has
\* passed since the trigger that set it.
C5_Original == awaiting_double => (clock - last_enter_time <= DOUBLE_WINDOW)

\* C5, amended: when the loop's timer check returns with awaiting_double still
\* set, at most DOUBLE_WINDOW had passed at the time that check sampled.
C5_OpenAfterCheck ==
  (pc = "gravity" /\ awaiting_double) => (clock - last_enter_time <= DOUBLE_WINDOW)

\* The timer check ran some time after the trigger and left the window open.
C5_Witness ==
  /\ pc = "gravity"
  /\ awaiting_double
  /\ clock - last_enter_time > 0

\* C6 as stated: after 'panic' the window is consumed and the state is visible.
C6_Original ==
  (op = "handle_enter" /\ action = "panic") => (~awaiting_double /\ ~hidden)

\* C6, amended: after 'panic' the window is consumed and hidden is left as it
\* was, which is set.
C6_PanicConsumesWindow ==
  (op = "handle_enter" /\ action = "panic") => (~awaiting_double /\ hidden)

\* handle_enter has returned 'panic'.
C6_Witness ==
  /\ op = "handle_enter"
  /\ action = "panic"
  /\ ~awaiting_double

\* C7: no step of the loop taken while the state is hidden changes the grid,
\* the active piece, the next piece, score, lines or level, whatever the key
\* and however long ago the last drop was.
C7_HiddenFreezesGame == [][hidden => gameCore' = gameCore]_vars

\* An iteration ran hidden from its input to its gravity step, with a
\* movement key polled and a full drop interval elapsed.
C7_Witness ==
  /\ pc = "poll"
  /\ op = "gravity"
  /\ hidden
  /\ nops = 2
  /\ key \in {"left", "right", "up", "down"}
  /\ clock - last_drop >= drop_interval

\* C8: move(dx) changes x to x+dx when that placement is free and changes
\* nothing else; rotate() changes the rotation index to the next one when that
\* placement is free at the same anchor and changes nothing else; a rejected
\* move or rotate changes nothing.
C8_RejectedOrExact ==
  [][/\ (op' = "move") =>
          /\ \E dx \in {-1, 1} :
               px' = IF CellsFree(ShapeCoords(current, current.rot, px + dx, py))
                     THEN px + dx ELSE px
          /\ UNCHANGED <<grid, current, next_piece, py, score, lines, level,
                         drop_interval, last_drop, soft_drop>>
     /\ (op' = "rotate") =>
          /\ current'.kind = current.kind
          /\ current'.rot =
               IF CellsFree(ShapeCoords(current, (current.rot + 1) % StateCount(current.kind), px, py))
               THEN (current.rot + 1) % StateCount(current.kind) ELSE current.rot
          /\ UNCHANGED <<grid, next_piece, px, py, score, lines, level,
                         drop_interval, last_drop, soft_drop>>]_vars

\* The I piece in the well was asked to rotate: the rotated piece would leave
\* the board, one column to the left it would fit, and nothing moved.
C8_Witness ==
  /\ op = "rotate"
  /\ nops = 1
  /\ current = WellSnapshot.current
  /\ px = WellSnapshot.px
  /\ py = WellSnapshot.py
  /\ ~CellsFree(ShapeCoords(current, current.rot + 1, px, py))
  /\ CellsFree(ShapeCoords(current, current.rot + 1, px - 1, py))

\* C9: the rotation index of the active piece is in [0, stateCount(kind)), and
\* a piece starts at rotation index 0: the next piece always, the active piece
\* right after a spawn.
C9_RotationInRange ==
  /\ current.rot \in 0..(StateCount(current.kind) - 1)
  /\ next_piece.rot = 0
  /\ lk.locked => current.rot = 0

\* A T at its last rotation state was rotated and is back at state 0.
C9_Witness ==
  /\ op = "rotate"
  /\ nops = 1
  /\ current = [kind |-> "T", rot |-> 0]
  /\ py = SpinSnapshot.py

\* The rows of g with no empty cell.
FullRows(g) == {y \in 1..Len(g) : \A x \in 1..Len(g[y]) : g[y][x] # 0}

\* C10: clear_lines removes exactly the rows with no empty cell, puts as many
\* empty rows at the top, keeps the other rows in their order (a row moves
\* down by the number of full rows below it), returns the number removed and
\* leaves HEIGHT rows of WIDTH cells; and the grid has HEIGHT rows of WIDTH
\* cells after any sequence of calls of TetrisGame's methods.
C10_ClearLinesExact ==
  /\ [](Len(grid) = HEIGHT /\ \A y \in 1..Len(grid) : Len(grid[y]) = WIDTH)
  /\ [][op' = "clear_lines" =>
          LET full == FullRows(grid)
              k    == Cardinality(full)
          IN  /\ lk'.cleared = k
              /\ Len(grid') = HEIGHT
              /\ \A y \in 1..HEIGHT : Len(grid'[y]) = WIDTH
              /\ \A y \in 1..k : grid'[y] = EmptyRow
              /\ \A y \in (1..HEIGHT) \ full :
                   grid'[y + Cardinality({z \in full : z > y})] = grid[y]]_vars

\* Two rows were removed and the two rows that stayed are at the bottom, in
\* their order.
C10_Witness ==
  /\ op = "clear_lines"
  /\ nops = 1
  /\ lk.cleared = 2
  /\ grid[HEIGHT] = RowOf({4})
  /\ grid[HEIGHT - 1] = RowOf(0..(WIDTH - 2))
  /\ grid[HEIGHT - 2] = EmptyRow

\* C11: a lock that clears k rows and does not end in a game-over reset adds
\* to the score 0, 100, 300, 500, 800 for k = 0, 1, 2, 3, 4 and adds k to
\* lines, whatever the board; a call that locks nothing changes neither score
\* nor lines.
C11_ScoreByTable ==
  [][/\ (lk'.locked /\ lk'.resets = 0) =>
          /\ lk'.cleared \in 0..4
          /\ score' = score + <<0, 100, 300, 500, 800>>[lk'.cleared + 1]
          /\ lines' = lines + lk'.cleared
     /\ ~lk'.locked => UNCHANGED <<score, lines>>]_vars

\* Locks with one, two, three and four rows cleared are all reachable; here
\* the one of two rows, on top of the 1600 points of eight lines.
C11_Witness ==
  /\ lk.locked
  /\ lk.resets = 0
  /\ lk.cleared = 2
  /\ score = 1900
  /\ lines = 10

\* C12: in every reachable state level = 1 + floor(lines / 10), lines being
\* the lines cleared since the last reset (0 lines: level 1, 10 lines: level
\* 2, 25 lines: level 3), and level >= 1.
C12_LevelFromLines ==
  /\ level = 1 + (lines \div 10)
  /\ level >= 1
  /\ lines >= 0
  /\ (lines < 10 => level = 1)
  /\ (lines \in 10..19 => level = 2)
  /\ (lines \in 20..29 => level = 3)

\* A lock has brought lines from 24 to 27 and computed level 3; locks that
\* bring lines from 6, 8 or 9 to 10 compute level 2.
C12_Witness ==
  /\ lk.locked
  /\ lk.cleared = 3
  /\ lines = 27
  /\ level = 3

\* C13: when a spawn finds the spawn placement (anchor x = 3, y = 0, rotation
\* 0) occupied, the call ends after exactly one reset with the grid empty,
\* score 0, lines 0, level 1 and a newly drawn piece active and free at the
\* spawn anchor; on the empty grid the spawn placement is free for each of the
\* seven kinds, so the reset's own spawn does not reset again.
C13_ResetOnce ==
  /\ \A k \in SHAPE_KEYS :
       \A i \in 1..4 :
         /\ SHAPES[k][1][i][1] + 3 \in 0..(WIDTH - 1)
         /\ SHAPES[k][1][i][2] \in 0..(HEIGHT - 1)
  /\ (lk.locked /\ lk.resets > 0) =>
       /\ lk.resets = 1
       /\ \A y \in 1..HEIGHT : \A x \in 1..WIDTH : grid[y][x] = 0
       /\ score = 0
       /\ lines = 0
       /\ level = 1
       /\ px = 3
       /\ py = 0
       /\ current.rot = 0
       /\ CellsFree(ShapeCoords(current, 0, 3, 0))

\* The O piece was locked in the spawn rows with ten lines cleared, the spawn
\* of the piece after it collided, and the game restarted on an empty grid
\* with a newly drawn Z.
C13_Witness ==
  /\ lk.locked
  /\ lk.resets = 1
  /\ nops = 2
  /\ current.kind = "Z"
  /\ grid = EmptyGrid
  /\ score = 0

\* C14: every lock clears between 0 and 4 rows: after a call the grid has no
\* full row, so the rows full when clear_lines runs are among the rows of the
\* four cells just marked, and the count is at most the number of rows the
\* piece spans.
C14_AtMostFourRows ==
  /\ [](/\ FullRows(grid) = {}
        /\ lk.cleared \in 0..4)
  /\ [][lk'.locked =>
          lk'.cleared <= Cardinality({SHAPES[current.kind][current.rot + 1][i][2] : i \in 1..4})]_vars

\* The upright I piece was dropped into the well of four rows: four rows
\* cleared at once, and no full row is left.
C14_Witness ==
  /\ op = "hard_drop"
  /\ lk.locked
  /\ lk.cleared = 4
  /\ lines = 10
  /\ FullRows(grid) = {}

\* C15: in every iteration of the loop whose gravity step runs, soft_drop as
\* that step reads it is set exactly when the key polled in the same iteration
\* is the down key; so after a down key, an iteration that polls no key or
\* another key drops the piece only when the full drop_interval has passed.
C15_SoftDropFollowsPoll ==
  /\ []((pc = "gravity" /\ ~hidden) => (soft_drop <=> key = "down"))
  /\ [][(op' = "gravity" /\ ~hidden /\ key # "down" /\ clock' - last_drop < drop_interval)
          => UNCHANGED gameVars]_vars

\* The first iteration polled the down key and its step dropped the piece one
\* row after 200 ms; the second iteration polled no key and is at its gravity
\* step with soft_drop released.
C15_Witness ==
  /\ pc = "gravity"
  /\ nops = 2
  /\ key = "none"
  /\ ~hidden
  /\ ~soft_drop
  /\ py = 1
  /\ last_drop = StartTime + 200

\* C16: once handle_enter has returned 'panic' the process ends: the loop is
\* left for good, and no input, timer check, gravity step or stealth
\* transition changes the game or the stealth state afterwards.
C16_PanicTerminates ==
  /\ [](action = "panic" => pc = "exited")
  /\ [][(action = "panic" \/ pc = "exited") =>
          UNCHANGED <<gameVars, stealthVars, pc>>]_vars

\* The second iteration polled Enter inside the window opened by the first:
\* 'panic' was returned and the loop was left.
C16_Witness ==
  /\ action = "panic"
  /\ pc = "exited"
  /\ nops = 2
  /\ hidden
  /\ ~awaiting_double

\* C17: step changes the game only when the time it samples is at least
\* drop_interval * (0.2 if soft_drop else 1.0) after last_drop; it then moves
\* the active piece one row down when that placement is free and otherwise
\* locks the piece where it is (the grid gets its four cells, full rows are
\* cleared, the next piece spawns); before that time the piece, the grid and
\* the stats are unchanged.
C17_StepWhenDue ==
  [][op' = "step" =>
       LET eff  == IF soft_drop THEN (drop_interval * 2) \div 10 ELSE drop_interval
           due  == clock' - last_drop >= eff
           free == CellsFree(ShapeCoords(current, current.rot, px, py + 1))
       IN  /\ ~due => UNCHANGED gameVars
           /\ (due /\ free) =>
                /\ py' = py + 1
                /\ ~lk'.locked
                /\ UNCHANGED <<grid, current, next_piece, px, score, lines, level>>
           /\ (due /\ ~free) =>
                /\ lk'.locked
                /\ px' = 3
                /\ py' = 0
                /\ lk'.resets = 0 =>
                     /\ grid' = ClearLines(Merge(grid, current, px, py)).grid
                     /\ current' = next_piece]_vars

\* Two steps, each exactly drop_interval after the one before: the first
\* moved the I piece to the bottom row, the second locked it there and the
\* row was cleared.
C17_Witness ==
  /\ op = "step"
  /\ nops = 2
  /\ lk.locked
  /\ lk.cleared = 1
  /\ clock = StartTime + 1400
  /\ last_drop = clock

\* C18: hard_drop merges the active piece at anchor (x, y*), x and the
\* rotation as they were, y* being the row >= y such that every placement
\* from y through y* is free and the one at y* + 1 is not, and does the lock
\* (merge, clear, score, spawn) in the same call.  The placements from y
\* through y* are inside the board when the columns are, the first one is not
\* above the first row and the last one not under the last row; they are
\* free when their cells are empty as well.
C18_HardDropLands ==
  [][op' = "hard_drop" =>
       \E cells \in {{SHAPES[current.kind][current.rot + 1][i] : i \in 1..4}} :
       \E ys \in {lk'.y} :
          /\ lk'.locked
          /\ ys >= py
          /\ \A c \in cells :
               /\ c[1] + px \in 0..(WIDTH - 1)
               /\ c[2] + py >= 0
               /\ c[2] + ys < HEIGHT
               /\ \A y \in (c[2] + py + 1)..(c[2] + ys + 1) : grid[y][c[1] + px + 1] = 0
          /\ \E c \in cells :
               \/ c[2] + ys + 1 >= HEIGHT
               \/ grid[c[2] + ys + 2][c[1] + px + 1] # 0
          /\ px' = 3
          /\ py' = 0
          /\ UNCHANGED <<last_drop, soft_drop>>
          /\ lk'.resets = 0 =>
               /\ grid' = ClearLines(Merge(grid, current, px, ys)).grid
               /\ current' = next_piece
               /\ lines' = lines + lk'.cleared]_vars

\* The first piece, an L, was dropped from the spawn row: it fell 18 rows and
\* its four cells are in the two bottom rows, under its anchor columns.
C18_Witness ==
  /\ op = "hard_drop"
  /\ nops = 1
  /\ lk.locked
  /\ lk.cleared = 0
  /\ grid[HEIGHT] = RowOf(3..5)
  /\ grid[HEIGHT - 1] = RowOf({5})

\* C19: in every reachable stealth state awaiting_double implies hidden; so
\* handle_enter never takes its 'panic' branch for a visible state, and a
\* trigger received while visible returns 'hide', sets hidden and opens the
\* window with the time of the trigger recorded.
C19_WindowOnlyWhileHidden ==
  /\ [](awaiting_double => hidden)
  /\ [][(op' = "handle_enter" /\ ~hidden) =>
          /\ action' = "hide"
          /\ hidden'
          /\ awaiting_double'
          /\ last_enter_time' = clock']_vars

\* Hidden, restored after the window had run out unchecked, and hidden again
\* by a third trigger, whose time is the one recorded.
C19_Witness ==
  /\ op = "handle_enter"
  /\ action = "hide"
  /\ nops = 3
  /\ hidden
  /\ awaiting_double
  /\ last_enter_time = clock
  /\ clock > StartTime + DOUBLE_WINDOW

\* The number of occupied cells of g, counted in the rows that are not empty.
Occupied(g) ==
  Cardinality({c \in {y \in 1..HEIGHT : g[y] # EmptyRow} \X (1..WIDTH) : g[c[1]][c[2]] # 0})

\* C20: a lock that does not end in a game-over reset changes the number of
\* occupied cells by exactly 4 - WIDTH * cleared: the piece marks four
\* distinct cells that were empty, each cleared row takes WIDTH occupied
\* cells away; a call that locks nothing leaves the grid as it was.
C20_CellCount ==
  [][/\ (lk'.locked /\ lk'.resets = 0) =>
          \E cells \in {{SHAPES[current.kind][current.rot + 1][i] : i \in 1..4}} :
             /\ Cardinality(cells) = 4
             /\ \A c \in cells : grid[c[2] + lk'.y + 1][c[1] + px + 1] = 0
             /\ Occupied(grid') = Occupied(grid) + 4 - WIDTH * lk'.cleared
     /\ ~lk'.locked => grid' = grid]_vars

\* A lock cleared three rows: 28 cells were occupied, 2 are left.
C20_Witness ==
  /\ lk.locked
  /\ lk.resets = 0
  /\ lk.cleared = 3
  /\ Occupied(grid) = 2

====
